---- MODULE Spec2Model ----
(***************************************************************************)
(* Model of the watfaq-dns crate: the listener orchestrator                *)
(* (get_dns_listener) and the query bridge (DnsHandler::handle and         *)
(* DnsHandler::handle_request) of src/dns/src/handler.rs.                  *)
(*                                                                         *)
(* Two specifications share the variables:                                 *)
(*   SpecListen  the startup of get_dns_listener over every ListenConfig,  *)
(*   Spec        the bridge handling requests on a started server.         *)
(***************************************************************************)
EXTENDS Integers, Sequences, FiniteSets, TLC

VARIABLES
    listen,         \* the DNSListenAddr given to get_dns_listener
    pc,             \* position inside get_dns_listener
    has_server,     \* the local of the same name
    server,         \* ServerFuture s: transport -> Option<registered listener>
    ret,            \* what get_dns_listener returned: "pending", "None", "Some"
    registered,     \* history: the transports whose bind and registration succeeded
    attempts,       \* history: the transports whose bind was attempted, in order
    stage,          \* position of the in-flight handle_request
    request,        \* Option<Request>: the inbound request being handled
    ipv6_calls,     \* results of the calls of exchanger.ipv6() for this request
    exchanged,      \* messages passed to exchanger.exchange() for this request
    answer,         \* Option<Result<Message, error>>: what exchange() returned
    handle_result,  \* the Result of DnsHandler::handle: "none", "Ok" or an error kind
    error_text,     \* the String carried by the DNSError handle returned ("" if none)
    sink,           \* responses written through response_handle.send_response
    info,           \* Option<ResponseInfo>: what handle_request returned
    send_calls,     \* history: calls of response_handle.send_response for this request
    failed_before,  \* history: an earlier request of this server failed in the bridge
    tasks,          \* the handle_request futures of the requests in flight together
    hangs           \* the in-flight requests whose exchange() call never returns

listenVars == <<listen, pc, has_server, server, ret, registered, attempts>>
bridgeVars == <<stage, request, ipv6_calls, exchanged, answer, handle_result, error_text,
                sink, info,
                send_calls, failed_before>>
concVars == <<tasks, hangs>>
vars == <<listen, pc, has_server, server, ret, registered, attempts,
          stage, request, ipv6_calls, exchanged, answer, handle_result, error_text,
          sink, info, send_calls, failed_before, tasks, hangs>>

\* Option<T> is a sequence of length at most one.
None == <<>>
Some(x) == <<x>>
IsSome(o) == Len(o) = 1
Unwrap(o) == o[1]

(***************************************************************************)
(* Bounds                                                                  *)
(***************************************************************************)
\* requests in flight at the same time
MaxInflight == 2
\* longest record section of a message
MaxRecs == 1
\* a request and the exchanger's answer to it differ, together, in at most this
\* many fields from the plain UDP A query and from a fresh Message
MaxSets == 2

Records == {"rr1", "rr2"}

RECURSIVE SeqsUpTo(_, _)
SeqsUpTo(S, n) ==
    IF n = 0 THEN {<<>>}
    ELSE LET shorter == SeqsUpTo(S, n - 1)
         IN  shorter \cup {Append(s, x) : s \in shorter, x \in S}

Sections == SeqsUpTo(Records, MaxRecs)
Counts == 0..MaxRecs

Transports == {"udp", "tcp", "doh", "dot", "doh3"}
TlsTransports == {"doh", "dot", "doh3"}

OpCodes == {"Query", "Update"}
MessageTypes == {"Query", "Response"}
RecordTypes == {"A", "AAAA"}
ResponseCodes == {"NoError", "NXDomain", "ServFail"}
EdnsOptions == {None} \cup {Some([dnssec_ok |-> d]) : d \in BOOLEAN}

(***************************************************************************)
(* The listener orchestrator: get_dns_listener                             *)
(***************************************************************************)
\* DnsServerKey / DnsServerCert: Option<String>, a path relative to cwd.
KeyPaths == {None, Some("key.pem"), Some("nokey.pem")}
CertPaths == {None, Some("cert.pem"), Some("nocert.pem")}
\* The files under cwd that load_priv_key / load_cert_chain can read and parse.
ReadableFiles == {"key.pem", "cert.pem"}

\* DoTConfig, DoHConfig, DoH3Config (addr and hostname do not decide anything here).
TlsConfigs == [ca_key : KeyPaths, ca_cert : CertPaths]
OptTlsConfigs == {None} \cup {Some(c) : c \in TlsConfigs}

DNSListenAddr ==
    [udp : {None, Some("addr")}, tcp : {None, Some("addr")},
     doh : OptTlsConfigs, dot : OptTlsConfigs, doh3 : OptTlsConfigs]

\* load_priv_key(&cwd.join(x)) and load_cert_chain(&cwd.join(x)): Ok(material
\* read from that file) or Err.
LoadFile(path) ==
    IF path \in ReadableFiles THEN [ok |-> TRUE, value |-> path]
    ELSE [ok |-> FALSE, value |-> "io error"]

\* load_default_key() / load_default_cert()
DefaultKey == "default key"
DefaultCert == "default cert"

\* Faulty variant of ResolveMaterial: a custom path that fails to load falls back to the default.
ResolveWithFallback(opt_path, default) ==
    IF IsSome(opt_path) /\ LoadFile(Unwrap(opt_path)).ok
    THEN LoadFile(Unwrap(opt_path))
    ELSE [ok |-> TRUE, value |-> default]

\* c.ca_key.map(|x| load_priv_key(&cwd.join(x))).transpose()?.unwrap_or(load_default_key())
ResolveMaterial(opt_path, default) ==
    IF IsSome(opt_path) THEN LoadFile(Unwrap(opt_path))
    ELSE [ok |-> TRUE, value |-> default]

\* The certificate resolution of one TLS transport: key first, then cert, each `?`.
ResolveCertificate(c) ==
    LET key == ResolveMaterial(c.ca_key, DefaultKey)
        cert == ResolveMaterial(c.ca_cert, DefaultCert)
    IN  IF ~key.ok THEN [ok |-> FALSE, key |-> "", cert |-> ""]
        ELSE IF ~cert.ok THEN [ok |-> FALSE, key |-> "", cert |-> ""]
        ELSE [ok |-> TRUE, key |-> key.value, cert |-> cert.value]

PlainListener == [cert |-> "none", key |-> "none"]
NoListeners == [t \in Transports |-> None]

\* Faulty variant of NextStep: the dot block placed before the doh block.
NextStepDotFirst(t) ==
    CASE t = "udp" -> "tcp"
      [] t = "tcp" -> "dot"
      [] t = "dot" -> "doh"
      [] t = "doh" -> "doh3"
      [] t = "doh3" -> "check"

\* The transport after t in the order of the `if let` blocks of get_dns_listener.
NextStep(t) ==
    CASE t = "udp" -> "tcp"
      [] t = "tcp" -> "doh"
      [] t = "doh" -> "dot"
      [] t = "dot" -> "doh3"
      [] t = "doh3" -> "check"

\* `.ok()?` on a failed bind or registration: get_dns_listener returns None and
\* the ServerFuture s, a local, is dropped with the listeners registered so far.
ReturnNoneOnFailure ==
    /\ ret' = "None"
    /\ pc' = "returned"
    /\ server' = NoListeners
    /\ UNCHANGED registered

\* Faulty variant of OnTransportFailure: the failed transport is skipped and the
\* startup goes on with the next one.
SkipFailedTransport(t) ==
    /\ pc' = NextStep(t)
    /\ UNCHANGED <<server, ret, registered>>

\* What a failed `.ok()?` does to the startup.
OnTransportFailure(t) == ReturnNoneOnFailure

\* A transport's block whose bind and registration succeeded.
Registered(t, listener) ==
    /\ server' = [server EXCEPT ![t] = Some(listener)]
    /\ registered' = registered \cup {t}
    /\ pc' = NextStep(t)
    /\ UNCHANGED ret

\* Faulty variant of StartPlain: has_server is set only once the transport is registered.
StartPlainFlagOnSuccess(t) ==
    /\ pc = t
    /\ ret = "pending"
    /\ IF listen[t] = None
       THEN /\ pc' = NextStep(t)
            /\ UNCHANGED <<has_server, server, ret, registered, attempts>>
       ELSE /\ attempts' = Append(attempts, t)
            /\ \E bound \in BOOLEAN :
                  IF bound THEN Registered(t, PlainListener) /\ has_server' = TRUE
                  ELSE OnTransportFailure(t) /\ UNCHANGED has_server
    /\ UNCHANGED <<listen, bridgeVars, concVars>>

\* if let Some(addr) = listen.udp / listen.tcp { has_server = true; bind; register }
StartPlain(t) ==
    /\ pc = t
    /\ ret = "pending"
    /\ IF listen[t] = None
       THEN /\ pc' = NextStep(t)
            /\ UNCHANGED <<has_server, server, ret, registered, attempts>>
       ELSE /\ has_server' = TRUE
            /\ attempts' = Append(attempts, t)
            /\ \E bound \in BOOLEAN :
                  IF bound THEN Registered(t, PlainListener)
                  ELSE OnTransportFailure(t)
    /\ UNCHANGED <<listen, bridgeVars, concVars>>

\* if let Some(c) = listen.doh / listen.dot / listen.doh3
\*   { has_server = true; bind; resolve key and cert; register_*_listener(...)? }
StartTls(t) ==
    /\ pc = t
    /\ ret = "pending"
    /\ IF listen[t] = None
       THEN /\ pc' = NextStep(t)
            /\ UNCHANGED <<has_server, server, ret, registered, attempts>>
       ELSE /\ has_server' = TRUE
            /\ attempts' = Append(attempts, t)
            /\ \E bound \in BOOLEAN, register_ok \in BOOLEAN :
                  LET material == ResolveCertificate(Unwrap(listen[t]))
                  IN  IF bound /\ material.ok /\ register_ok
                      THEN Registered(t, [cert |-> material.cert, key |-> material.key])
                      ELSE OnTransportFailure(t)
    /\ UNCHANGED <<listen, bridgeVars, concVars>>

BindUdp == StartPlain("udp")
BindTcp == StartPlain("tcp")
BindDoh == StartTls("doh")
BindDot == StartTls("dot")
BindDoh3 == StartTls("doh3")

\* Faulty variant of Finish: the has_server check is missing.
FinishWithoutCheck ==
    /\ pc = "check"
    /\ ret = "pending"
    /\ pc' = "returned"
    /\ ret' = "Some"
    /\ UNCHANGED <<listen, has_server, server, registered, attempts, bridgeVars, concVars>>

\* if !has_server { return None; }  ...  Some(Box::pin(async move { ... }))
Finish ==
    /\ pc = "check"
    /\ ret = "pending"
    /\ pc' = "returned"
    /\ ret' = IF ~has_server THEN "None" ELSE "Some"
    /\ server' = IF ~has_server THEN NoListeners ELSE server
    /\ UNCHANGED <<listen, has_server, registered, attempts, bridgeVars, concVars>>

\* No request is in flight.
\* One handle_request future: where it stands, its request, the messages it gave
\* to exchange(), the answer it got, its Result, the responses it sent and the
\* ResponseInfo it returned.
NoTask ==
    [stage |-> "none", request |-> None, forwarded |-> <<>>, answer |-> None,
     result |-> "none", sent |-> <<>>, info |-> None]

RequestIds == 1..MaxInflight

NoneInFlight ==
    /\ tasks = [i \in RequestIds |-> NoTask]
    /\ hangs = {}

BridgeIdle ==
    /\ stage = "idle"
    /\ request = None
    /\ ipv6_calls = <<>>
    /\ exchanged = <<>>
    /\ answer = None
    /\ handle_result = "none"
    /\ error_text = ""
    /\ sink = <<>>
    /\ info = None
    /\ send_calls = 0
    /\ failed_before = FALSE

InitListen ==
    /\ listen \in DNSListenAddr
    /\ pc = "udp"
    /\ has_server = FALSE
    /\ server = NoListeners
    /\ ret = "pending"
    /\ registered = {}
    /\ attempts = <<>>
    /\ BridgeIdle
    /\ NoneInFlight

NextListen == BindUdp \/ BindTcp \/ BindDoh \/ BindDot \/ BindDoh3 \/ Finish

SpecListen == InitListen /\ [][NextListen]_vars

(***************************************************************************)
(* The query bridge: DnsHandler::handle and DnsHandler::handle_request     *)
(***************************************************************************)
Names == {"www.example.com."}
Queries == [name : Names, query_type : RecordTypes]

\* The parts of a hickory Request that handle() reads.
AllRequests ==
    [op_code : OpCodes, message_type : MessageTypes, recursion_desired : BOOLEAN,
     query : Queries, additionals : Sections, name_servers : Sections,
     sig0 : Sections, edns : EdnsOptions, protocol : Transports]

\* The query send_query() of the tests sends over UDP, without recursion desired.
PlainRequest ==
    [op_code |-> "Query", message_type |-> "Query", recursion_desired |-> FALSE,
     query |-> [name |-> "www.example.com.", query_type |-> "A"],
     additionals |-> <<>>, name_servers |-> <<>>, sig0 |-> <<>>, edns |-> None,
     protocol |-> "udp"]

\* Number of fields in which two records of the same shape differ.
Differences(a, b) == Cardinality({f \in DOMAIN a : a[f] # b[f]})

Requests == {r \in AllRequests : Differences(r, PlainRequest) <= MaxSets}

\* Message::new()
MessageNew ==
    [op_code |-> "Query", message_type |-> "Query", recursion_desired |-> FALSE,
     recursion_available |-> FALSE, authoritative |-> FALSE,
     response_code |-> "NoError",
     answer_count |-> 0, name_server_count |-> 0, additional_count |-> 0,
     queries |-> <<>>, answers |-> <<>>, name_servers |-> <<>>, additionals |-> <<>>,
     sig0 |-> <<>>, edns |-> None]

\* The Messages an exchanger can answer with: the parts handle() reads vary.
AllAnswers ==
    {[MessageNew EXCEPT !.response_code = rc, !.recursion_available = ra,
                        !.authoritative = aa, !.answer_count = ac,
                        !.name_server_count = nc, !.additional_count = dc,
                        !.answers = an, !.name_servers = ns, !.additionals = ad,
                        !.edns = e] :
        rc \in ResponseCodes, ra \in BOOLEAN, aa \in BOOLEAN,
        ac \in Counts, nc \in Counts, dc \in Counts,
        an \in Sections, ns \in Sections, ad \in Sections, e \in EdnsOptions}

Answers == {a \in AllAnswers : Differences(a, MessageNew) <= MaxSets}

\* exchange() returns Ok(answer) or Err(_).
ExchangeResults(req) ==
    {[ok |-> TRUE, message |-> a] :
        a \in {x \in Answers : Differences(x, MessageNew)
                                  + Differences(req, PlainRequest) <= MaxSets}}
        \cup {[ok |-> FALSE, message |-> MessageNew]}

\* Faulty variant of Validate: the opcode check is missing.
ValidateMessageTypeOnly(req) ==
    IF req.message_type # "Query" THEN "InvalidOpQuery" ELSE "ok"

\* Faulty variant of Validate: the message-type check is missing.
ValidateOpcodeOnly(req) ==
    IF req.op_code # "Query" THEN "InvalidOpQuery" ELSE "ok"

\* The two checks at the head of handle(): "ok" or the DNSError returned.
Validate(req) ==
    IF req.op_code # "Query" THEN "InvalidOpQuery"
    ELSE IF req.message_type # "Query" THEN "InvalidOpQuery"
    ELSE "ok"

\* The String of the DNSError the two checks return: format!("invalid OP code: {}", ..)
\* or format!("invalid message type: {}", ..).
ValidateText(req) ==
    IF req.op_code # "Query" THEN "invalid OP code"
    ELSE IF req.message_type # "Query" THEN "invalid message type"
    ELSE ""

\* Header::response_from_request(request.header())
ResponseFromRequest(req) ==
    [message_type |-> "Response", op_code |-> req.op_code,
     recursion_desired |-> req.recursion_desired,
     recursion_available |-> FALSE, authoritative |-> FALSE,
     response_code |-> "NoError",
     answer_count |-> 0, name_server_count |-> 0, additional_count |-> 0]

\* Faulty variant of NoRecordsResponse: header.set_authoritative(true) is missing.
NoRecordsNotAuthoritative(req) ==
    [header |-> ResponseFromRequest(req),
     query |-> req.query,
     answers |-> <<>>, name_servers |-> <<>>, soa |-> <<>>, additionals |-> <<>>,
     edns |-> None]

\* header.set_authoritative(true); builder.build_no_records(header)
NoRecordsResponse(req) ==
    [header |-> [ResponseFromRequest(req) EXCEPT !.authoritative = TRUE],
     query |-> req.query,
     answers |-> <<>>, name_servers |-> <<>>, soa |-> <<>>, additionals |-> <<>>,
     edns |-> None]

\* Faulty variant of Forward: m.add_name_servers(...) is missing.
ForwardWithoutNameServers(req) ==
    [MessageNew EXCEPT !.op_code = req.op_code,
                       !.message_type = req.message_type,
                       !.recursion_desired = req.recursion_desired,
                       !.queries = Append(@, req.query),
                       !.additionals = @ \o req.additionals,
                       !.sig0 = @ \o req.sig0,
                       !.edns = IF IsSome(req.edns) THEN req.edns ELSE @]

\* The message m that handle() builds and passes to exchanger.exchange(&m).
Forward(req) ==
    [MessageNew EXCEPT !.op_code = req.op_code,
                       !.message_type = req.message_type,
                       !.recursion_desired = req.recursion_desired,
                       !.queries = Append(@, req.query),
                       !.additionals = @ \o req.additionals,
                       !.name_servers = @ \o req.name_servers,
                       !.sig0 = @ \o req.sig0,
                       !.edns = IF IsSome(req.edns) THEN req.edns ELSE @]

\* The header of the response on exchange success.
AnswerHeader(req, m) ==
    [ResponseFromRequest(req) EXCEPT !.recursion_available = m.recursion_available,
                                     !.response_code = m.response_code,
                                     !.authoritative = m.authoritative,
                                     !.answer_count = m.answer_count,
                                     !.name_server_count = m.name_server_count,
                                     !.additional_count = m.additional_count]

\* Faulty variant of ResponseEdns: the Answer's extension is copied whatever the request asked.
ResponseEdnsAlways(req, m) == m.edns

\* if let Some(edns) = request.edns() { if edns.dnssec_ok() {
\*     if let Some(edns) = m.extensions() { rv.set_edns(edns.clone()) } } }
ResponseEdns(req, m) ==
    IF IsSome(req.edns) /\ Unwrap(req.edns).dnssec_ok /\ IsSome(m.edns)
    THEN m.edns
    ELSE None

\* Faulty variant of BuildResponse: name servers and additionals passed in each other's place.
BuildResponseSwapped(req, m) ==
    [header |-> AnswerHeader(req, m),
     query |-> req.query,
     answers |-> m.answers, name_servers |-> m.additionals, soa |-> <<>>,
     additionals |-> m.name_servers,
     edns |-> ResponseEdns(req, m)]

\* builder.build(header, m.answers(), m.name_servers(), &[], m.additionals())
BuildResponse(req, m) ==
    [header |-> AnswerHeader(req, m),
     query |-> req.query,
     answers |-> m.answers, name_servers |-> m.name_servers, soa |-> <<>>,
     additionals |-> m.additionals,
     edns |-> ResponseEdns(req, m)]

\* let mut h = Header::new(); h.set_response_code(ResponseCode::ServFail); h.into()
ServFailInfo ==
    [message_type |-> "Query", op_code |-> "Query", recursion_desired |-> FALSE,
     recursion_available |-> FALSE, authoritative |-> FALSE,
     response_code |-> "ServFail",
     answer_count |-> 0, name_server_count |-> 0, additional_count |-> 0]

\* Faulty variant of Failed: the Err arm panics, handle_request never returns.
FailedPanics(kind) ==
    /\ handle_result' = kind
    /\ info' = None
    /\ stage' = "panicked"
    /\ failed_before' = TRUE
    /\ UNCHANGED sink

\* handle() returned Err(kind): handle_request answers its caller with the
\* ServFail header; response_handle was moved into handle() and is gone.
Failed(kind) ==
    /\ handle_result' = kind
    /\ info' = Some(ServFailInfo)
    /\ stage' = "done"
    /\ failed_before' = TRUE
    /\ UNCHANGED sink

\* Faulty variant of SendResponse: a failed send is followed by a second send.
SendResponseRetry(resp) ==
    \E sent \in BOOLEAN :
        IF sent
        THEN /\ send_calls' = send_calls + 1
             /\ sink' = Append(sink, resp)
             /\ handle_result' = "Ok"
             /\ info' = Some(resp.header)
             /\ stage' = "done"
             /\ UNCHANGED <<failed_before, error_text>>
        ELSE /\ send_calls' = send_calls + 2
             /\ sink' = Append(sink, resp)
             /\ handle_result' = "Ok"
             /\ info' = Some(resp.header)
             /\ stage' = "done"
             /\ UNCHANGED <<failed_before, error_text>>

\* Ok(response_handle.send_response(resp).await?) and handle_request's Ok arm.
SendResponse(resp) ==
    /\ send_calls' = send_calls + 1
    /\ \E sent \in BOOLEAN :
          IF sent
          THEN /\ sink' = Append(sink, resp)
               /\ handle_result' = "Ok"
               /\ info' = Some(resp.header)
               /\ stage' = "done"
               /\ UNCHANGED <<failed_before, error_text>>
          ELSE Failed("Io") /\ error_text' = "io error"

\* handle_request up to the await of exchanger.exchange (or to its return).
HandleRequest ==
    /\ stage = "idle"
    /\ ret = "Some"
    /\ \E req \in Requests :
          /\ IsSome(server[req.protocol])
          /\ request' = Some(req)
          /\ IF Validate(req) # "ok"
             THEN /\ Failed(Validate(req))
                  /\ error_text' = ValidateText(req)
                  /\ UNCHANGED <<ipv6_calls, exchanged, answer, send_calls>>
             ELSE IF req.query.query_type = "AAAA"
             THEN \E ipv6 \in BOOLEAN :
                     /\ ipv6_calls' = Append(ipv6_calls, ipv6)
                     /\ IF ~ipv6
                        THEN /\ SendResponse(NoRecordsResponse(req))
                             /\ UNCHANGED <<exchanged, answer>>
                        ELSE /\ exchanged' = Append(exchanged, Forward(req))
                             /\ stage' = "exchanging"
                             /\ UNCHANGED <<answer, handle_result, error_text, sink,
                                            info, send_calls, failed_before>>
             ELSE /\ exchanged' = Append(exchanged, Forward(req))
                  /\ stage' = "exchanging"
                  /\ UNCHANGED <<ipv6_calls, answer, handle_result, error_text, sink,
                                 info, send_calls, failed_before>>
    /\ UNCHANGED <<listenVars, concVars>>

\* Faulty variant of ExchangeReturns: a failed exchange is tried once more.
ExchangeReturnsWithRetry ==
    /\ stage = "exchanging"
    /\ \E result \in ExchangeResults(Unwrap(request)) :
          IF result.ok
          THEN /\ answer' = Some(result)
               /\ SendResponse(BuildResponse(Unwrap(request), result.message))
               /\ UNCHANGED exchanged
          ELSE IF Len(exchanged) < 2
          THEN /\ exchanged' = Append(exchanged, Forward(Unwrap(request)))
               /\ UNCHANGED <<answer, stage, handle_result, error_text, sink, info,
                              send_calls, failed_before>>
          ELSE /\ answer' = Some(result)
               /\ Failed("QueryFailed")
               /\ error_text' = "exchange error"
               /\ UNCHANGED <<send_calls, exchanged>>
    /\ UNCHANGED <<request, ipv6_calls, listenVars, concVars>>

\* exchanger.exchange(&m) returns: the match of handle() and handle_request's match.
ExchangeReturns ==
    /\ stage = "exchanging"
    /\ \E result \in ExchangeResults(Unwrap(request)) :
          /\ answer' = Some(result)
          /\ IF result.ok
             THEN SendResponse(BuildResponse(Unwrap(request), result.message))
             ELSE /\ Failed("QueryFailed")
                  /\ error_text' = "exchange error"
                  /\ UNCHANGED send_calls
    /\ UNCHANGED <<request, ipv6_calls, exchanged, listenVars, concVars>>

\* handle_request has returned: the transport is done with the request.
RequestDone ==
    /\ stage = "done"
    /\ stage' = "idle"
    /\ request' = None
    /\ ipv6_calls' = <<>>
    /\ exchanged' = <<>>
    /\ answer' = None
    /\ handle_result' = "none"
    /\ error_text' = ""
    /\ sink' = <<>>
    /\ info' = None
    /\ send_calls' = 0
    /\ UNCHANGED <<failed_before, listenVars, concVars>>

\* The ListenConfig of tests::test_multiple_dns_server: all five transports,
\* the TLS ones with the built-in key and certificate.
TestConfig ==
    [udp |-> Some("addr"), tcp |-> Some("addr"),
     doh |-> Some([ca_key |-> None, ca_cert |-> None]),
     dot |-> Some([ca_key |-> None, ca_cert |-> None]),
     doh3 |-> Some([ca_key |-> None, ca_cert |-> None])]

\* The server of TestConfig once get_dns_listener has returned its task.
Init ==
    /\ listen = TestConfig
    /\ pc = "returned"
    /\ has_server = TRUE
    /\ server = [t \in Transports |->
                    IF t \in TlsTransports
                    THEN Some([cert |-> DefaultCert, key |-> DefaultKey])
                    ELSE Some(PlainListener)]
    /\ ret = "Some"
    /\ registered = Transports
    /\ attempts = <<"udp", "tcp", "doh", "dot", "doh3">>
    /\ BridgeIdle
    /\ NoneInFlight

Next ==
    \/ HandleRequest
    \/ ExchangeReturns
    \/ RequestDone

Spec == Init /\ [][Next]_vars

(***************************************************************************)
(* Requests in flight together: one handle_request future for each         *)
(***************************************************************************)
\* The requests of the futures: a plain A query, an AAAA query and a request
\* whose opcode is not Query.
InflightRequests ==
    {PlainRequest,
     [PlainRequest EXCEPT !.query.query_type = "AAAA"],
     [PlainRequest EXCEPT !.op_code = "Update"]}

\* What an exchange() call that returns can return: Ok(answer) or Err(_).
InflightResults ==
    {[ok |-> TRUE,
      message |-> [MessageNew EXCEPT !.answers = <<"rr1">>, !.answer_count = 1]],
     [ok |-> FALSE, message |-> MessageNew]}

\* handle() returned Err(kind) in the future t: the Err arm of handle_request.
TaskFailed(t, kind) ==
    [t EXCEPT !.stage = "done", !.result = kind, !.info = Some(ServFailInfo)]

\* response_handle.send_response(resp).await? in the future t.
TaskSent(t, resp, ok) ==
    IF ok
    THEN [t EXCEPT !.stage = "done", !.result = "Ok", !.sent = Append(@, resp),
                   !.info = Some(resp.header)]
    ELSE TaskFailed(t, "Io")

\* Faulty variant of CanEnter: handle() takes a lock it holds across exchange().
CanEnterLocked(i) == \A j \in RequestIds \ {i} : tasks[j].stage # "exchanging"

\* handle(&self, ..) takes no lock: DnsHandler holds only the exchanger, so a
\* future enters whatever the other futures are doing.
CanEnter(i) == TRUE

\* The server hands a request to handle_request: a new future.
Receive(i) ==
    /\ tasks[i].stage = "none"
    /\ \E req \in InflightRequests :
          /\ IsSome(server[req.protocol])
          /\ tasks' = [tasks EXCEPT ![i] =
                          [NoTask EXCEPT !.stage = "received", !.request = Some(req)]]
    /\ UNCHANGED <<hangs, listenVars, bridgeVars>>

\* handle() runs from its start to its first suspension at exchange(), or to its
\* return when validation fails or the AAAA filter answers.
Enter(i) ==
    /\ tasks[i].stage = "received"
    /\ CanEnter(i)
    /\ LET t == tasks[i]
           req == Unwrap(tasks[i].request)
       IN  \E ipv6 \in BOOLEAN, ok \in BOOLEAN :
              tasks' = [tasks EXCEPT ![i] =
                  IF Validate(req) # "ok"
                  THEN TaskFailed(t, Validate(req))
                  ELSE IF req.query.query_type = "AAAA" /\ ~ipv6
                  THEN TaskSent(t, NoRecordsResponse(req), ok)
                  ELSE [t EXCEPT !.stage = "exchanging",
                                 !.forwarded = Append(@, Forward(req))]]
    /\ UNCHANGED <<hangs, listenVars, bridgeVars>>

\* The exchange() call of the future returns, unless it is one that hangs; there
\* is no timeout that would end it otherwise.
Returns(i) ==
    /\ tasks[i].stage = "exchanging"
    /\ i \notin hangs
    /\ LET t == tasks[i]
           req == Unwrap(tasks[i].request)
       IN  \E result \in InflightResults, ok \in BOOLEAN :
              tasks' = [tasks EXCEPT ![i] =
                  IF result.ok
                  THEN TaskSent([t EXCEPT !.answer = Some(result)],
                                BuildResponse(req, result.message), ok)
                  ELSE TaskFailed([t EXCEPT !.answer = Some(result)], "QueryFailed")]
    /\ UNCHANGED <<hangs, listenVars, bridgeVars>>

\* handle_request has returned: the future is dropped.
Dropped(i) ==
    /\ tasks[i].stage = "done"
    /\ tasks' = [tasks EXCEPT ![i] = NoTask]
    /\ UNCHANGED <<hangs, listenVars, bridgeVars>>

\* The server of TestConfig with no request in flight yet; which exchange()
\* calls will hang is the exchanger's choice.
InitInflight ==
    /\ listen = TestConfig
    /\ pc = "returned"
    /\ has_server = TRUE
    /\ server = [t \in Transports |->
                    IF t \in TlsTransports
                    THEN Some([cert |-> DefaultCert, key |-> DefaultKey])
                    ELSE Some(PlainListener)]
    /\ ret = "Some"
    /\ registered = Transports
    /\ attempts = <<"udp", "tcp", "doh", "dot", "doh3">>
    /\ BridgeIdle
    /\ tasks = [i \in RequestIds |-> NoTask]
    /\ hangs \in SUBSET RequestIds

NextInflight ==
    \E i \in RequestIds : Receive(i) \/ Enter(i) \/ Returns(i) \/ Dropped(i)

\* The runtime polls every future that can run, and an exchange() call that does
\* not hang returns.
FairInflight ==
    \A i \in RequestIds : WF_vars(Enter(i)) /\ WF_vars(Returns(i))

SpecInflight == InitInflight /\ [][NextInflight]_vars /\ FairInflight

(***************************************************************************)
(* Properties                                                              *)
(***************************************************************************)
Req == Unwrap(request)
ValidRequest == IsSome(request) /\ Req.op_code = "Query" /\ Req.message_type = "Query"
InvalidRequest == IsSome(request) /\ ~(Req.op_code = "Query" /\ Req.message_type = "Query")
ExchangeOk == IsSome(answer) /\ Unwrap(answer).ok
ExchangeFailed == IsSome(answer) /\ ~Unwrap(answer).ok
Ans == Unwrap(answer).message

NoRecords(r) ==
    /\ r.answers = <<>>
    /\ r.name_servers = <<>>
    /\ r.soa = <<>>
    /\ r.additionals = <<>>

ZeroCounts(h) ==
    /\ h.answer_count = 0
    /\ h.name_server_count = 0
    /\ h.additional_count = 0

\* C1: every request whose bridge handling failed (opcode not QUERY, message type
\* not QUERY, or the exchanger returned an error) has, once its handling has
\* finished, a ServFail response without records written to the response sink.
C1_FailedRequestIsAnswered ==
    (stage = "done" /\ handle_result \in {"InvalidOpQuery", "QueryFailed"})
        => /\ Len(sink) = 1
           /\ sink[1].header.response_code = "ServFail"
           /\ NoRecords(sink[1])

\* C2: once get_dns_listener has returned, if at least one configured transport
\* bound and registered successfully then a server task was returned and every
\* successfully registered transport is served by it.
C2_FailedTransportOnlySkipped ==
    (pc = "returned" /\ registered # {})
        => /\ ret = "Some"
           /\ \A t \in registered : IsSome(server[t])

\* C3: a request with opcode other than QUERY or message type other than QUERY
\* ends with the ServFail outcome and exchange() is never called for it.
C3_InvalidRequestServFailNoExchange ==
    InvalidRequest
        => /\ stage = "done"
           /\ handle_result = "InvalidOpQuery"
           /\ exchanged = <<>>
           /\ answer = None
           /\ IsSome(info)
           /\ Unwrap(info).response_code = "ServFail"

C3_Witness ==
    /\ IsSome(request)
    /\ Req.op_code = "Query"
    /\ Req.message_type = "Response"
    /\ stage = "done"
    /\ IsSome(info)

\* C4: for a valid AAAA query for which ipv6() returned false, exchange() is never
\* called and the response sent has response code NoError, no record in any
\* section, zero counts and the authoritative flag set.
C4_FilteredAAAAEmptyAuthoritative ==
    (ValidRequest /\ Req.query.query_type = "AAAA" /\ ipv6_calls = <<FALSE>>)
        => /\ exchanged = <<>>
           /\ answer = None
           /\ stage = "done"
           /\ (handle_result = "Ok" => Len(sink) = 1)
           /\ \A i \in DOMAIN sink :
                 /\ sink[i].header.response_code = "NoError"
                 /\ sink[i].header.authoritative
                 /\ sink[i].header.message_type = "Response"
                 /\ ZeroCounts(sink[i].header)
                 /\ NoRecords(sink[i])
                 /\ sink[i].edns = None

C4_Witness ==
    /\ ValidRequest
    /\ Req.query.query_type = "AAAA"
    /\ ipv6_calls = <<FALSE>>
    /\ Len(sink) = 1
    /\ handle_result = "Ok"

\* C5: for a valid query that is not filtered (not AAAA, or AAAA with ipv6() true)
\* exactly one message is passed to exchange(); it has the request's opcode,
\* message type and recursion-desired flag, the original question as its only
\* question, and exactly the request's additional, name-server and SIG(0) records
\* and EDNS options, and nothing else.
C5_ForwardedMessagePreservesRequest ==
    (ValidRequest /\ (Req.query.query_type # "AAAA" \/ ipv6_calls = <<TRUE>>))
        => /\ Len(exchanged) = 1
           /\ exchanged[1].op_code = Req.op_code
           /\ exchanged[1].message_type = Req.message_type
           /\ exchanged[1].recursion_desired = Req.recursion_desired
           /\ exchanged[1].queries = <<Req.query>>
           /\ exchanged[1].additionals = Req.additionals
           /\ exchanged[1].name_servers = Req.name_servers
           /\ exchanged[1].sig0 = Req.sig0
           /\ exchanged[1].edns = Req.edns
           /\ exchanged[1].answers = <<>>

C5_Witness ==
    /\ ValidRequest
    /\ Len(exchanged) = 1
    /\ Req.name_servers # <<>>
    /\ IsSome(Req.edns)
    /\ stage = "exchanging"

\* The request asked for DNSSEC-OK and the exchanger's answer carried an EDNS extension.
AskedAndGranted ==
    /\ IsSome(Req.edns)
    /\ Unwrap(Req.edns).dnssec_ok
    /\ ExchangeOk
    /\ IsSome(Ans.edns)

\* C6 as stated: a response sent asserts DNSSEC-OK if and only if the request had
\* DNSSEC-OK set and the Answer carried an EDNS extension, and in every other case
\* carries no EDNS extension.
C6_DnssecOkEchoedIffAskedAndGranted ==
    \A i \in DOMAIN sink :
        /\ AskedAndGranted <=> (IsSome(sink[i].edns) /\ Unwrap(sink[i].edns).dnssec_ok)
        /\ ~AskedAndGranted => sink[i].edns = None

\* C6 amended: a response sent carries an EDNS extension if and only if the request
\* had DNSSEC-OK set and the Answer carried an EDNS extension, and it is then the
\* Answer's extension unchanged (so it asserts DNSSEC-OK exactly when the Answer's
\* extension does); in every other case it carries no EDNS extension.
C6_EdnsCopiedIffAskedAndGranted ==
    \A i \in DOMAIN sink :
        /\ AskedAndGranted => sink[i].edns = Ans.edns
        /\ ~AskedAndGranted => sink[i].edns = None

C6_Witness ==
    /\ Len(sink) = 1
    /\ AskedAndGranted
    /\ ~Unwrap(Ans.edns).dnssec_ok
    /\ sink[1].edns = Some([dnssec_ok |-> FALSE])

C8_ExchangeFailureAnsweredServFail ==
    (ExchangeFailed /\ stage = "done")
        => /\ handle_result = "QueryFailed"
           /\ Len(sink) = 1
           /\ sink[1].header.response_code = "ServFail"
           /\ NoRecords(sink[1])

\* C10: a registered TLS transport holds, for key and certificate independently,
\* the material loaded from the configured custom path when there is one and the
\* built-in default when there is none; a transport with a custom path that does
\* not load is never registered.
C10_KeyAndCertResolvedIndependently ==
    \A t \in TlsTransports :
        /\ IsSome(server[t]) =>
              LET c == Unwrap(listen[t])
                  m == Unwrap(server[t])
              IN  /\ m.key = IF IsSome(c.ca_key) THEN Unwrap(c.ca_key) ELSE DefaultKey
                  /\ m.cert = IF IsSome(c.ca_cert) THEN Unwrap(c.ca_cert) ELSE DefaultCert
        /\ t \in registered =>
              LET c == Unwrap(listen[t])
              IN  /\ IsSome(c.ca_key) => Unwrap(c.ca_key) \in ReadableFiles
                  /\ IsSome(c.ca_cert) => Unwrap(c.ca_cert) \in ReadableFiles

C10_Witness ==
    /\ IsSome(listen["dot"])
    /\ Unwrap(listen["dot"]) = [ca_key |-> Some("key.pem"), ca_cert |-> None]
    /\ server["dot"] = Some([cert |-> DefaultCert, key |-> "key.pem"])

Configured(t) == listen[t] # None
SeqToSet(q) == {q[i] : i \in DOMAIN q}
IndexIn(order, t) == CHOOSE i \in DOMAIN order : order[i] = t

\* The bind attempts made so far follow `order`, and no configured transport that
\* is earlier in `order` than an attempted one was left out.
AttemptsFollow(order) ==
    /\ \A i, j \in DOMAIN attempts :
          i < j => IndexIn(order, attempts[i]) < IndexIn(order, attempts[j])
    /\ \A t2 \in SeqToSet(attempts) : \A t1 \in Transports :
          (Configured(t1) /\ IndexIn(order, t1) < IndexIn(order, t2))
              => t1 \in SeqToSet(attempts)

\* C11: with no transport configured get_dns_listener never attempts a bind,
\* registers nothing and returns None, never a server task.
C11_NoTransportNoServer ==
    (\A t \in Transports : ~Configured(t))
        => /\ attempts = <<>>
           /\ registered = {}
           /\ server = NoListeners
           /\ ret # "Some"
           /\ (pc = "returned" => ret = "None")

C11_Witness ==
    /\ \A t \in Transports : ~Configured(t)
    /\ pc = "returned"
    /\ ret = "None"

\* C14 as stated: the transports are attempted in the order UDP, TCP, DoT, DoH,
\* DoH3, an earlier configured one always before a later one.
C14_OrderUdpTcpDotDohDoh3 == AttemptsFollow(<<"udp", "tcp", "dot", "doh", "doh3">>)

\* C14 amended: the transports are attempted in the order UDP, TCP, DoH, DoT,
\* DoH3, an earlier configured one always before a later one.
C14_OrderUdpTcpDohDotDoh3 == AttemptsFollow(<<"udp", "tcp", "doh", "dot", "doh3">>)

C14_Witness ==
    \E i \in DOMAIN attempts :
        /\ i + 1 \in DOMAIN attempts
        /\ attempts[i] = "doh"
        /\ attempts[i + 1] = "dot"
        /\ "doh" \in registered

CodeOrder == <<"udp", "tcp", "doh", "dot", "doh3">>
\* Some transport whose bind was attempted did not get registered.
StartupFailed == \E t \in SeqToSet(attempts) : t \notin registered

\* C17: a returned server task has every configured transport registered; after a
\* failure of a configured transport None is returned, the server object holds no
\* listener any more and no transport after the failed one was attempted.
C17_AllOrNothingStartup ==
    /\ ret = "Some" => \A t \in Transports : Configured(t) => IsSome(server[t])
    /\ StartupFailed
          => /\ pc = "returned"
             /\ ret = "None"
             /\ server = NoListeners
             /\ \A f \in SeqToSet(attempts) \ registered : \A t \in Transports :
                   IndexIn(CodeOrder, f) < IndexIn(CodeOrder, t)
                       => t \notin SeqToSet(attempts)

C17_Witness ==
    /\ registered = {"udp"}
    /\ attempts = <<"udp", "tcp">>
    /\ Configured("doh")
    /\ ret = "None"
    /\ server = NoListeners

\* C19 as stated: has_server is true only when a transport has been bound and
\* registered, and None is returned exactly when no transport ended up registered.
C19_HasServerOnlyAfterRegistration ==
    /\ has_server => registered # {}
    /\ pc = "returned" => (ret = "None" <=> server = NoListeners)

\* C19 amended: has_server is true exactly when the bind of a configured transport
\* has been attempted; a returned server task implies has_server and a registered
\* transport; None is returned exactly when no transport ended up registered.
C19_HasServerOnceAttempted ==
    /\ has_server <=> attempts # <<>>
    /\ ret = "Some" => (has_server /\ registered # {})
    /\ pc = "returned" => (ret = "None" <=> server = NoListeners)

C19_Witness ==
    /\ has_server
    /\ registered = {}
    /\ attempts = <<"udp">>
    /\ pc = "returned"
    /\ ret = "None"

\* C12: a request that fails in the bridge makes handle_request return normally
\* with its ServFail outcome; the server returned by get_dns_listener and its
\* listeners are untouched; and once the failed request is done the bridge is in
\* the state of a fresh server, so every later request is handled as if no
\* request had failed.
C12_RequestFailureNotFatal ==
    /\ handle_result \in {"InvalidOpQuery", "QueryFailed", "Io"}
          => (stage = "done" /\ IsSome(info))
    /\ stage \in {"idle", "exchanging", "done"}
    /\ ret = "Some"
    /\ \A t \in registered : IsSome(server[t])
    /\ (failed_before /\ stage = "done") => ENABLED RequestDone
    /\ (failed_before /\ stage = "idle")
          => /\ request = None
             /\ ipv6_calls = <<>>
             /\ exchanged = <<>>
             /\ answer = None
             /\ handle_result = "none"
             /\ sink = <<>>
             /\ send_calls = 0
             /\ ENABLED HandleRequest

C12_Witness ==
    /\ failed_before
    /\ ValidRequest
    /\ stage = "done"
    /\ handle_result = "Ok"
    /\ Len(sink) = 1

C16_ExchangeAtMostOnce ==
    /\ Len(exchanged) <= 1
    /\ IsSome(request)
          => (Len(exchanged) = 1
                <=> (ValidRequest
                       /\ (Req.query.query_type # "AAAA" \/ ipv6_calls = <<TRUE>>)))
    /\ Len(ipv6_calls) <= 1
    /\ ipv6_calls # <<>> => (ValidRequest /\ Req.query.query_type = "AAAA")

C16_Witness ==
    /\ ExchangeFailed
    /\ stage = "done"
    /\ Len(exchanged) = 1

\* C18: send_response is called at most once for a request: once on the
\* AAAA-filtered path and once on the exchange-success path, never on a validation
\* or exchange failure; the ResponseInfo returned after a successful send is that
\* of the response sent, and a failed send gives the ServFail outcome without a
\* second send.
C18_AtMostOneResponse ==
    /\ send_calls <= 1
    /\ Len(sink) <= send_calls
    /\ stage = "done" =>
          /\ send_calls = 1 <=> (ExchangeOk \/ (ValidRequest /\ ipv6_calls = <<FALSE>>))
          /\ handle_result = "Ok"
                => (Len(sink) = 1 /\ info = Some(sink[1].header))
          /\ handle_result = "Io"
                => (send_calls = 1 /\ sink = <<>> /\ info = Some(ServFailInfo))

C18_Witness ==
    /\ stage = "done"
    /\ handle_result = "Io"
    /\ send_calls = 1
    /\ ExchangeOk

\* C13: with several requests in flight, a request whose exchange() call never
\* returns stays suspended in it for ever and nothing is sent for it (no timeout),
\* while every received request whose own exchange() call does not hang runs to
\* the end of handle_request (no lock held across the call), with its response
\* sent when its exchange and its send succeeded.
C13_HangingExchangeBlocksOnlyItself ==
    /\ [](\A i \in RequestIds :
             /\ (i \in hangs /\ tasks[i].forwarded # <<>>)
                    => /\ tasks[i].stage = "exchanging"
                       /\ tasks[i].sent = <<>>
                       /\ tasks[i].info = None
             /\ (tasks[i].stage = "done" /\ IsSome(tasks[i].answer)
                    /\ Unwrap(tasks[i].answer).ok /\ tasks[i].result # "Io")
                    => /\ tasks[i].result = "Ok"
                       /\ Len(tasks[i].sent) = 1
                       /\ tasks[i].sent[1]
                             = BuildResponse(Unwrap(tasks[i].request),
                                             Unwrap(tasks[i].answer).message))
    /\ \A i \in RequestIds :
          (tasks[i].stage = "received" /\ i \notin hangs) ~> (tasks[i].stage = "done")

C13_Witness ==
    \E i \in RequestIds, j \in RequestIds :
        /\ i \in hangs
        /\ tasks[i].stage = "exchanging"
        /\ j \notin hangs
        /\ tasks[j].stage = "done"
        /\ tasks[j].forwarded # <<>>
        /\ tasks[j].result = "Ok"
        /\ Len(tasks[j].sent) = 1

====
